---- MODULE Spec2Model ----
(***************************************************************************)
(* Model of the backtracking engine bt::Algorithm (src/src/bt/mod.rs) run  *)
(* over a bounded family of bt::State implementations.                     *)
(*                                                                         *)
(* The engine is generic over the State trait, so the model instantiates   *)
(* the trait with a parametric "pick one amount per level" problem: the    *)
(* live state is (size, acc); forward(a) takes one level and adds a to     *)
(* acc, backward(a) undoes exactly that.  The parameters of a problem      *)
(* choose its type, its depth, the ordered alternatives, whether a         *)
(* capacity makes alternatives illegal (dead ends) or makes is_final true  *)
(* early (is_final overridden), the terminal values and the estimator.     *)
(* solve() is recursive; the recursion is unfolded into an explicit stack  *)
(* of frames, one action per call into the State.                          *)
(*                                                                         *)
(* The divide and conquer structs DacAlgorithm and DacMemAlgorithm         *)
(* (src/src/dac/mod.rs) are modelled next to it, over the documented       *)
(* Fibonacci problem and variants of it, with a specification of their     *)
(* own (DacSpec).                                                          *)
(***************************************************************************)
EXTENDS Integers, Sequences, FiniteSets, TLC

(***************************************************************************)
(* Bounds of the model.                                                    *)
(***************************************************************************)
MaxDepth == 2

MaxCount == 2

MaxCalls == 2

MaxN == 5

(***************************************************************************)
(* f64, as far as the engine uses it: a total order on the non-NaN values  *)
(* with the extremes f64::MAX, f64::MIN = -f64::MAX and the infinities     *)
(* beyond them, and NaN, with which every comparison is false.             *)
(***************************************************************************)
F64_MAX == 1000

F64_MIN == -F64_MAX

INFINITY == F64_MAX + 1

NEG_INFINITY == -INFINITY

NAN == INFINITY + 1

IsNan(x) == x = NAN

Gt(x, y) == ~IsNan(x) /\ ~IsNan(y) /\ x > y

Lt(x, y) == ~IsNan(x) /\ ~IsNan(y) /\ x < y

Ge(x, y) == ~IsNan(x) /\ ~IsNan(y) /\ x >= y

Le(x, y) == ~IsNan(x) /\ ~IsNan(y) /\ x <= y

(***************************************************************************)
(* enum Type (src/src/lib.rs).                                             *)
(***************************************************************************)
Type == {"All", "Max", "Min"}

(***************************************************************************)
(* Helpers on sequences.                                                   *)
(***************************************************************************)
Range(s) == {s[i] : i \in DOMAIN s}

(***************************************************************************)
(* The family of State implementations.                                    *)
(*   type  : problem_type()                                                *)
(*   n     : size() of the initial state                                   *)
(*   alts  : the ordered amounts offered at every level                    *)
(*   limit : "none"  - no capacity;                                        *)
(*           "legal" - alternatives() offers only the amounts that keep    *)
(*                     acc within Capacity (a state may have none left);   *)
(*           "stop"  - is_final() is overridden: also final once acc has   *)
(*                     reached Capacity                                    *)
(*   val   : value() as a table indexed by acc                             *)
(*   est   : "default" - estimated_value not overridden;                   *)
(*           "tight"   - the best terminal value reachable through a;      *)
(*           "slack"   - a valid but loose bound;                          *)
(*           "zero"    - the constant 0 (not a bound in general)           *)
(***************************************************************************)
Capacity == 3

AltLists == { <<1>>, <<1, 2>>, <<2, 1>>, <<0, 1>>, <<3, 1, 2>> }

SumTable == <<0, 1, 2, 3, 4, 5, 6, 7>>

StreamTable == <<0, 5, 3, 7, 7, 2>>

HighTable == <<1, F64_MAX, INFINITY, 3>>

LowTable == <<1, F64_MIN, NEG_INFINITY, NAN>>

ValueTables == {SumTable, StreamTable, HighTable, LowTable}

Estimators(t) == IF t = "All" THEN {"default"} ELSE {"default", "tight", "slack", "zero"}

StreamingProblems ==
    [type : {"Max", "Min"}, n : {1}, alts : {<<1, 2, 3, 4, 5>>}, limit : {"none"},
     val : {StreamTable}, est : {"default"}]

Problems ==
    { p \in [type : Type, n : 0..MaxDepth, alts : AltLists,
             limit : {"none", "legal", "stop"}, val : ValueTables,
             est : {"default", "tight", "slack", "zero"}] :
        /\ p.est \in Estimators(p.type)
        /\ (p.n = 0 => p.alts = <<1>> /\ p.limit = "none") }
    \cup StreamingProblems

(***************************************************************************)
(* trait State.                                                            *)
(***************************************************************************)
InitialState(p) == [size |-> p.n, acc |-> 0]

size(s) == s.size

is_final(p, s) ==
    \/ size(s) = 0
    \/ (p.limit = "stop" /\ s.acc >= Capacity)

alternatives(p, s) ==
    IF p.limit = "legal"
    THEN LET Fits(a) == s.acc + a <= Capacity IN SelectSeq(p.alts, Fits)
    ELSE p.alts

forward(s, a) == [size |-> s.size - 1, acc |-> s.acc + a]

backward(s, a) == [size |-> s.size + 1, acc |-> s.acc - a]

value(p, s) == p.val[(s.acc % Len(p.val)) + 1]

(***************************************************************************)
(* The terminal states reachable from s through alternatives().            *)
(***************************************************************************)
RECURSIVE Terminals(_, _)
Terminals(p, s) ==
    IF is_final(p, s) THEN {s}
    ELSE UNION { Terminals(p, forward(s, alternatives(p, s)[i])) :
                    i \in DOMAIN alternatives(p, s) }

(***************************************************************************)
(* Better(t, x, y): x is strictly better than y for problem type t.        *)
(***************************************************************************)
Better(t, x, y) == IF t = "Min" THEN Lt(x, y) ELSE Gt(x, y)

Worst(t) == IF t = "Min" THEN INFINITY ELSE NEG_INFINITY

BestOf(t, vals) ==
    LET nums == {v \in vals : ~IsNan(v)}
    IN  IF nums = {} THEN Worst(t)
        ELSE CHOOSE x \in nums : \A y \in nums : ~Better(t, y, x)

BestReachable(p, s) == BestOf(p.type, { value(p, t) : t \in Terminals(p, s) })

DefaultEstimate(p) ==
    CASE p.type = "Max" -> F64_MAX
      [] p.type = "Min" -> F64_MIN
      [] OTHER -> 0

estimated_value(p, s, a) ==
    CASE p.est = "default" -> DefaultEstimate(p)
      [] p.est = "tight" -> BestReachable(p, forward(s, a))
      [] p.est = "slack" ->
            LET b == BestReachable(p, forward(s, a))
            IN  IF b < F64_MAX /\ b > F64_MIN
                THEN (IF p.type = "Min" THEN b - 1 ELSE b + 1)
                ELSE b
      [] OTHER -> 0

(***************************************************************************)
(* struct Algorithm: the engine's fields, the call stack of solve() and    *)
(* the history needed to state the properties.                             *)
(*   stack   : the frames of solve(), outermost first.  A frame holds its  *)
(*             position pc, the alternatives it collected, the index i of  *)
(*             the alternative being explored, the live state it was       *)
(*             entered with and the best_value its filter ran with.        *)
(*   calls   : the number of solve() calls made so far                     *)
(*   fwd     : the number of forward() calls of the current solve()        *)
(*   visited : the terminal states update_solutions() was called on in     *)
(*             the current solve(), in order                               *)
(*   log     : one record per finished solve(): the cap it ran with and    *)
(*             the engine's fields when it returned                        *)
(*   trace   : the forward() and backward() calls of the current solve(),  *)
(*             in order, each with its alternative                         *)
(***************************************************************************)
VARIABLES prob, solution_count, solutions, best_value, success, state,
          stack, calls, fwd, visited, log, trace

(***************************************************************************)
(* mod dac: the problem handed to new(), DacAlgorithm's partial_solution,  *)
(* DacMemAlgorithm's map and the call stack of its solve().                *)
(*   frames   : the frames of DacMemAlgorithm::solve(), outermost first    *)
(*   built    : "no" before DacMemAlgorithm::new(), "solving" while its    *)
(*              solve() runs, "yes" once the struct is built               *)
(*   combined : the problems combine() was called on, in order             *)
(*   answered : the problems answered from the map, each with the value    *)
(*              returned                                                   *)
(***************************************************************************)
VARIABLES problem, partial_solution, map, frames, built, combined, answered

btVars == <<prob, solution_count, solutions, best_value, success, state,
            stack, calls, fwd, visited, log, trace>>

dacVars == <<problem, partial_solution, map, frames, built, combined, answered>>

vars == <<btVars, dacVars>>

(***************************************************************************)
(* trait DacProblem, for a family of problems [split, final, n]:           *)
(*   split "fib"  : the documented Fibonacci(n), subproblems n-1 and n-2   *)
(*   split "half" : subproblems n/2 and n - n/2                            *)
(*   final "some" : get_solution is Some(partial solution)                 *)
(*   final "positive" : get_solution is None for a partial solution of 0   *)
(* The partial solutions stay far below the width of u64.                  *)
(***************************************************************************)
DacProblems == [split : {"fib", "half"}, final : {"some", "positive"}, n : 0..MaxN]

None == <<"None">>

Some(x) == <<"Some", x>>

dac_size(p) == p.n

is_base_case(p) == dac_size(p) < 2

base_case_solution(p) == p.n

subproblem_count(p) == 2

get_subproblem(p, i) ==
    CASE p.split = "fib" -> [p EXCEPT !.n = IF i = 0 THEN p.n - 1 ELSE p.n - 2]
      [] OTHER -> [p EXCEPT !.n = IF i = 0 THEN p.n \div 2 ELSE p.n - (p.n \div 2)]

combine(p, sols) == sols[1] + sols[2]

get_solution(p, e) ==
    IF p.final = "positive" /\ e = 0 THEN None ELSE Some(e)

(***************************************************************************)
(* DacAlgorithm::solve, new and get_solution.                              *)
(***************************************************************************)
RECURSIVE DacSolve(_)
DacSolve(p) ==
    IF is_base_case(p) THEN base_case_solution(p)
    ELSE combine(p, [i \in 1..subproblem_count(p) |->
                        DacSolve(get_subproblem(p, i - 1))])

(***************************************************************************)
(* partial_solution before new(): no value of the type E = u64.            *)
(***************************************************************************)
Unbuilt == -1

DacGetSolution == get_solution(problem, partial_solution)

(***************************************************************************)
(* DacMemAlgorithm: a frame of solve() holds its problem, its position and *)
(* the solutions of the subproblems collected so far.                      *)
(***************************************************************************)
contains_key_Never(m, p) == FALSE

contains_key(m, p) == p \in DOMAIN m

Insert(m, p, e) == [q \in DOMAIN m \cup {p} |-> IF q = p THEN e ELSE m[q]]

DacFrame(p) == [problem |-> p, pc |-> "enter", sols |-> << >>]

EmptyMap == [q \in {} |-> 0]

DacMemGetSolution ==
    IF contains_key(map, problem) THEN get_solution(problem, map[problem]) ELSE None

(***************************************************************************)
(* The dac structs while only the backtracking engine runs.                *)
(***************************************************************************)
DacUnused ==
    /\ problem = [split |-> "fib", final |-> "some", n |-> 0]
    /\ partial_solution = Unbuilt
    /\ map = EmptyMap
    /\ frames = << >>
    /\ built = "no"
    /\ combined = << >>
    /\ answered = << >>

DefaultSolutionCount == 100

Counts == 0..MaxCount

InitialBest(p) ==
    CASE p.type = "Max" -> F64_MIN
      [] p.type = "Min" -> F64_MAX
      [] OTHER -> 0

(***************************************************************************)
(* update_solutions: whether the terminal value v is stored.               *)
(***************************************************************************)
Accepts_NotStrict(p, v, best) ==
    \/ (p.type # "Min" /\ p.type # "Max")
    \/ (p.type = "Min" /\ Le(v, best))
    \/ (p.type = "Max" /\ Ge(v, best))

Accepts(p, v, best) ==
    \/ (p.type # "Min" /\ p.type # "Max")
    \/ (p.type = "Min" /\ Lt(v, best))
    \/ (p.type = "Max" /\ Gt(v, best))

update_solutions_StaleBest(p, s, sols, best) ==
    IF Accepts(p, value(p, s), best)
    THEN [solutions |-> sols \cup {s},
          best_value |-> IF sols = {} THEN value(p, s) ELSE best]
    ELSE [solutions |-> sols, best_value |-> best]

update_solutions(p, s, sols, best) ==
    IF Accepts(p, value(p, s), best)
    THEN [solutions |-> sols \cup {s}, best_value |-> value(p, s)]
    ELSE [solutions |-> sols, best_value |-> best]

is_to_prune_Swapped(p, s, best, a) ==
    CASE p.type = "Max" -> Ge(estimated_value(p, s, a), best)
      [] p.type = "Min" -> Le(estimated_value(p, s, a), best)
      [] OTHER -> FALSE

is_to_prune_EveryType(p, s, best, a) ==
    CASE p.type = "Min" -> Ge(estimated_value(p, s, a), best)
      [] OTHER -> Le(estimated_value(p, s, a), best)

is_to_prune_Strict(p, s, best, a) ==
    CASE p.type = "Max" -> Lt(estimated_value(p, s, a), best)
      [] p.type = "Min" -> Gt(estimated_value(p, s, a), best)
      [] OTHER -> FALSE

is_to_prune(p, s, best, a) ==
    CASE p.type = "Max" -> Le(estimated_value(p, s, a), best)
      [] p.type = "Min" -> Ge(estimated_value(p, s, a), best)
      [] OTHER -> FALSE

(***************************************************************************)
(* The alternatives a frame collects before its loop starts: the filter    *)
(* is evaluated once, with the best_value of that moment.                  *)
(***************************************************************************)
Surviving_LastFirst(p, s, best) ==
    LET Kept(a) == ~is_to_prune(p, s, best, a)
        as == SelectSeq(alternatives(p, s), Kept)
    IN  [i \in DOMAIN as |-> as[Len(as) + 1 - i]]

Surviving(p, s, best) ==
    LET Kept(a) == ~is_to_prune(p, s, best, a)
    IN  SelectSeq(alternatives(p, s), Kept)

Frame(s) == [pc |-> "enter", alts |-> << >>, i |-> 0, entry |-> s, best |-> 0]

Top == stack[Len(stack)]

Pop == SubSeq(stack, 1, Len(stack) - 1)

SetTop(f) == [stack EXCEPT ![Len(stack)] = f]

Running == stack # << >>

Outcome(sols, best, succ) ==
    [count |-> solution_count, solutions |-> sols, best_value |-> best,
     success |-> succ, state |-> state, fwd |-> fwd, visited |-> visited]

Init ==
    /\ prob \in Problems
    /\ solution_count = DefaultSolutionCount
    /\ solutions = {}
    /\ best_value = InitialBest(prob)
    /\ success = FALSE
    /\ state = InitialState(prob)
    /\ stack = << >>
    /\ calls = 0
    /\ fwd = 0
    /\ visited = << >>
    /\ log = << >>
    /\ trace = << >>
    /\ DacUnused

(***************************************************************************)
(* solution_count(count): the builder, between calls of solve().           *)
(***************************************************************************)
SolutionCount(k) ==
    /\ ~Running
    /\ solution_count' = k
    /\ UNCHANGED <<prob, solutions, best_value, success, state, stack, calls,
                   fwd, visited, log, trace, dacVars>>

(***************************************************************************)
(* solve(), the outermost call.                                            *)
(***************************************************************************)
Solve ==
    /\ ~Running
    /\ calls < MaxCalls
    /\ stack' = << Frame(state) >>
    /\ calls' = calls + 1
    /\ fwd' = 0
    /\ visited' = << >>
    /\ trace' = << >>
    /\ UNCHANGED <<prob, solution_count, solutions, best_value, success, state, log,
                   dacVars>>

(***************************************************************************)
(* solve() on a final state: update_solutions, set success, return.        *)
(***************************************************************************)
Visit_DuplicateStops ==
    /\ Running
    /\ Top.pc = "enter"
    /\ is_final(prob, state)
    /\ LET u == update_solutions(prob, state, solutions, best_value)
           ok == Cardinality(u.solutions) >= solution_count \/ state \in solutions
       IN  /\ solutions' = u.solutions
           /\ best_value' = u.best_value
           /\ success' = ok
           /\ visited' = Append(visited, state)
           /\ stack' = Pop
           /\ log' = IF Len(stack) = 1
                     THEN Append(log, [Outcome(u.solutions, u.best_value, ok)
                                          EXCEPT !.visited = Append(visited, state)])
                     ELSE log
    /\ UNCHANGED <<prob, solution_count, state, calls, fwd, trace, dacVars>>

Visit ==
    /\ Running
    /\ Top.pc = "enter"
    /\ is_final(prob, state)
    /\ LET u == update_solutions(prob, state, solutions, best_value)
           ok == Cardinality(u.solutions) >= solution_count
       IN  /\ solutions' = u.solutions
           /\ best_value' = u.best_value
           /\ success' = ok
           /\ visited' = Append(visited, state)
           /\ stack' = Pop
           /\ log' = IF Len(stack) = 1
                     THEN Append(log, [Outcome(u.solutions, u.best_value, ok)
                                          EXCEPT !.visited = Append(visited, state)])
                     ELSE log
    /\ UNCHANGED <<prob, solution_count, state, calls, fwd, trace, dacVars>>

(***************************************************************************)
(* solve() on a non-final state: collect the alternatives not pruned.      *)
(***************************************************************************)
Expand ==
    /\ Running
    /\ Top.pc = "enter"
    /\ ~is_final(prob, state)
    /\ stack' = SetTop([Top EXCEPT !.pc = "loop", !.i = 1,
                                   !.alts = Surviving(prob, state, best_value),
                                   !.best = best_value])
    /\ UNCHANGED <<prob, solution_count, solutions, best_value, success, state,
                   calls, fwd, visited, log, trace, dacVars>>

(***************************************************************************)
(* The loop body up to the recursive call: forward, then solve().          *)
(***************************************************************************)
Forward ==
    /\ Running
    /\ Top.pc = "loop"
    /\ Top.i <= Len(Top.alts)
    /\ state' = forward(state, Top.alts[Top.i])
    /\ stack' = Append(SetTop([Top EXCEPT !.pc = "back"]), Frame(state'))
    /\ fwd' = fwd + 1
    /\ trace' = Append(trace, <<"forward", Top.alts[Top.i]>>)
    /\ UNCHANGED <<prob, solution_count, solutions, best_value, success,
                   calls, visited, log, dacVars>>

(***************************************************************************)
(* The loop body after the recursive call: backward, then the check of     *)
(* success.                                                                *)
(***************************************************************************)
AfterBackward_AlwaysBreak(f, succ) == [f EXCEPT !.pc = "done"]

AfterBackward_SameAlternative(f, succ) ==
    IF succ THEN [f EXCEPT !.pc = "done"] ELSE [f EXCEPT !.pc = "loop"]

AfterBackward_NeverBreak(f, succ) == [f EXCEPT !.pc = "loop", !.i = f.i + 1]

AfterBackward(f, succ) ==
    IF succ THEN [f EXCEPT !.pc = "done"]
    ELSE [f EXCEPT !.pc = "loop", !.i = f.i + 1]

Backward_BreakBeforeUndo ==
    /\ Running
    /\ Top.pc = "back"
    /\ state' = IF success THEN state ELSE backward(state, Top.alts[Top.i])
    /\ stack' = SetTop(AfterBackward(Top, success))
    /\ trace' = Append(trace, <<"backward", Top.alts[Top.i]>>)
    /\ UNCHANGED <<prob, solution_count, solutions, best_value, success,
                   calls, fwd, visited, log, dacVars>>

Backward_FirstAlternative ==
    /\ Running
    /\ Top.pc = "back"
    /\ state' = backward(state, Top.alts[1])
    /\ stack' = SetTop(AfterBackward(Top, success))
    /\ trace' = Append(trace, <<"backward", Top.alts[1]>>)
    /\ UNCHANGED <<prob, solution_count, solutions, best_value, success,
                   calls, fwd, visited, log, dacVars>>

Backward ==
    /\ Running
    /\ Top.pc = "back"
    /\ state' = backward(state, Top.alts[Top.i])
    /\ stack' = SetTop(AfterBackward(Top, success))
    /\ trace' = Append(trace, <<"backward", Top.alts[Top.i]>>)
    /\ UNCHANGED <<prob, solution_count, solutions, best_value, success,
                   calls, fwd, visited, log, dacVars>>

(***************************************************************************)
(* The loop is over (exhausted or left by break): solve() returns.         *)
(***************************************************************************)
Return ==
    /\ Running
    /\ \/ Top.pc = "done"
       \/ (Top.pc = "loop" /\ Top.i > Len(Top.alts))
    /\ stack' = Pop
    /\ log' = IF Len(stack) = 1
              THEN Append(log, Outcome(solutions, best_value, success))
              ELSE log
    /\ UNCHANGED <<prob, solution_count, solutions, best_value, success, state,
                   calls, fwd, visited, trace, dacVars>>

Step == Visit \/ Expand \/ Forward \/ Backward \/ Return

Next ==
    \/ \E k \in Counts : SolutionCount(k)
    \/ Solve
    \/ Visit
    \/ Expand
    \/ Forward
    \/ Backward
    \/ Return

Spec == Init /\ [][Next]_vars

(***************************************************************************)
(* solve() has no suspension point: once called it runs until it returns.  *)
(* The specification with that fairness runs the problems whose value()    *)
(* is the plain sum, with every type, shape, limit, estimator and cap.     *)
(***************************************************************************)
FairInit == Init /\ prob.val = SumTable

FairSpec == FairInit /\ [][Next]_vars /\ WF_vars(Step)

TypeOK ==
    /\ prob \in Problems
    /\ solution_count \in Counts \cup {DefaultSolutionCount}
    /\ success \in BOOLEAN
    /\ calls \in 0..MaxCalls
    /\ Len(stack) <= MaxDepth + 1

(***************************************************************************)
(* The backtracking engine while only the dac structs are built.           *)
(***************************************************************************)
EngineUnused ==
    /\ prob = [type |-> "All", n |-> 1, alts |-> <<1>>, limit |-> "none",
               val |-> SumTable, est |-> "default"]
    /\ solution_count = DefaultSolutionCount
    /\ solutions = {}
    /\ best_value = InitialBest(prob)
    /\ success = FALSE
    /\ state = InitialState(prob)
    /\ stack = << >>
    /\ calls = 0
    /\ fwd = 0
    /\ visited = << >>
    /\ log = << >>
    /\ trace = << >>

DacInit ==
    /\ EngineUnused
    /\ problem \in DacProblems
    /\ partial_solution = Unbuilt
    /\ map = EmptyMap
    /\ frames = << >>
    /\ built = "no"
    /\ combined = << >>
    /\ answered = << >>

(***************************************************************************)
(* DacAlgorithm::new(problem).                                             *)
(***************************************************************************)
DacNew ==
    /\ partial_solution = Unbuilt
    /\ partial_solution' = DacSolve(problem)
    /\ UNCHANGED <<problem, map, frames, built, combined, answered, btVars>>

(***************************************************************************)
(* DacMemAlgorithm::new(problem): an empty map, then solve(); the value    *)
(* solve() returns to new() is dropped.                                    *)
(***************************************************************************)
MemNew ==
    /\ built = "no"
    /\ map' = EmptyMap
    /\ frames' = << DacFrame(problem) >>
    /\ built' = "solving"
    /\ UNCHANGED <<problem, partial_solution, combined, answered, btVars>>

MemTop == frames[Len(frames)]

(***************************************************************************)
(* solve() returns e: to the frame that called it, which collects it, or   *)
(* to new().                                                               *)
(***************************************************************************)
MemReturn(e) ==
    /\ frames' = IF Len(frames) = 1 THEN << >>
                 ELSE LET caller == frames[Len(frames) - 1]
                      IN  Append(SubSeq(frames, 1, Len(frames) - 2),
                                 [caller EXCEPT !.sols = Append(caller.sols, e)])
    /\ built' = IF Len(frames) = 1 THEN "yes" ELSE built

MemBase ==
    /\ frames # << >>
    /\ MemTop.pc = "enter"
    /\ is_base_case(MemTop.problem)
    /\ MemReturn(base_case_solution(MemTop.problem))
    /\ UNCHANGED <<problem, partial_solution, map, combined, answered, btVars>>

MemHit ==
    /\ frames # << >>
    /\ MemTop.pc = "enter"
    /\ ~is_base_case(MemTop.problem)
    /\ contains_key(map, MemTop.problem)
    /\ MemReturn(map[MemTop.problem])
    /\ answered' = Append(answered, <<MemTop.problem, map[MemTop.problem]>>)
    /\ UNCHANGED <<problem, partial_solution, map, combined, btVars>>

MemMiss ==
    /\ frames # << >>
    /\ MemTop.pc = "enter"
    /\ ~is_base_case(MemTop.problem)
    /\ ~contains_key(map, MemTop.problem)
    /\ frames' = [frames EXCEPT ![Len(frames)].pc = "iter"]
    /\ UNCHANGED <<problem, partial_solution, map, built, combined, answered, btVars>>

MemDescend ==
    /\ frames # << >>
    /\ MemTop.pc = "iter"
    /\ Len(MemTop.sols) < subproblem_count(MemTop.problem)
    /\ frames' = Append(frames,
                        DacFrame(get_subproblem(MemTop.problem, Len(MemTop.sols))))
    /\ UNCHANGED <<problem, partial_solution, map, built, combined, answered, btVars>>

MemCombine ==
    /\ frames # << >>
    /\ MemTop.pc = "iter"
    /\ Len(MemTop.sols) = subproblem_count(MemTop.problem)
    /\ map' = Insert(map, MemTop.problem, combine(MemTop.problem, MemTop.sols))
    /\ combined' = Append(combined, MemTop.problem)
    /\ MemReturn(map'[MemTop.problem])
    /\ UNCHANGED <<problem, partial_solution, answered, btVars>>

DacNext ==
    \/ DacNew
    \/ MemNew
    \/ MemBase
    \/ MemHit
    \/ MemMiss
    \/ MemDescend
    \/ MemCombine

DacSpec == DacInit /\ [][DacNext]_vars

(***************************************************************************)
(* solve() as a function of the engine's fields: the same recursion, run   *)
(* to completion.  e is [state, solutions, best_value, success, trace]     *)
(* and k the cap; with pruning = FALSE the filter keeps every alternative. *)
(***************************************************************************)
RECURSIVE SolveFrom(_, _, _, _)
RECURSIVE SolveLoop(_, _, _, _, _)
SolveFrom(p, e, k, pruning) ==
    IF is_final(p, e.state)
    THEN LET u == update_solutions(p, e.state, e.solutions, e.best_value)
         IN  [state |-> e.state, solutions |-> u.solutions,
              best_value |-> u.best_value,
              success |-> Cardinality(u.solutions) >= k, trace |-> e.trace]
    ELSE SolveLoop(p, e, k, pruning,
                   IF pruning THEN Surviving(p, e.state, e.best_value)
                   ELSE alternatives(p, e.state))

SolveLoop(p, e, k, pruning, as) ==
    IF as = << >> THEN e
    ELSE LET e1 == SolveFrom(p, [e EXCEPT !.state = forward(e.state, Head(as)),
                                          !.trace = Append(e.trace,
                                                           <<"forward", Head(as)>>)],
                             k, pruning)
             e2 == [e1 EXCEPT !.state = backward(e1.state, Head(as)),
                              !.trace = Append(e1.trace, <<"backward", Head(as)>>)]
         IN  IF e2.success THEN e2 ELSE SolveLoop(p, e2, k, pruning, Tail(as))

FreshEngine(p) ==
    [state |-> InitialState(p), solutions |-> {}, best_value |-> InitialBest(p),
     success |-> FALSE, trace |-> << >>]

FreshSolve(p, k, pruning) == SolveFrom(p, FreshEngine(p), k, pruning)

(***************************************************************************)
(* The states reachable from s through alternatives(), s included.         *)
(***************************************************************************)
RECURSIVE Reachable(_, _)
Reachable(p, s) ==
    IF is_final(p, s) THEN {s}
    ELSE {s} \cup UNION { Reachable(p, forward(s, alternatives(p, s)[i])) :
                             i \in DOMAIN alternatives(p, s) }

Idle == ~Running

Returned == Idle /\ Len(log) >= 1

First == log[1]

(***************************************************************************)
(* C1: when solve() returns - the outermost call or any nested frame,      *)
(* also when the run is cut short by success - the live state equals the   *)
(* state the call was entered with.                                        *)
(***************************************************************************)
C1_StateRestored ==
    /\ Idle => state = InitialState(prob)
    /\ \A j \in DOMAIN log : log[j].state = InitialState(prob)
    /\ (Running /\ Top.pc # "back") => state = Top.entry

C1_Witness ==
    /\ Returned
    /\ First.success
    /\ First.fwd >= 2
    /\ Len(First.visited) >= 1
    /\ First.visited[1] # InitialState(prob)
    /\ state = InitialState(prob)

(***************************************************************************)
(* C2: after solve() on a fresh engine with cap k, all_solutions() has at  *)
(* most k entries.                                                         *)
(***************************************************************************)
all_solutions == solutions

C2_CapRespected ==
    Returned => Cardinality(First.solutions) <= First.count

(***************************************************************************)
(* C3: in All mode, when the number of distinct reachable terminal states  *)
(* is at most the cap, solve() on a fresh engine collects exactly the      *)
(* reachable terminal states.                                              *)
(***************************************************************************)
C3_EnumerationComplete ==
    (/\ Returned
     /\ prob.type = "All"
     /\ Cardinality(Terminals(prob, InitialState(prob))) <= First.count)
    => First.solutions = Terminals(prob, InitialState(prob))

C3_Witness ==
    /\ Returned
    /\ prob.type = "All"
    /\ Cardinality(Terminals(prob, InitialState(prob))) = First.count
    /\ First.count = 2
    /\ First.success
    /\ First.solutions = Terminals(prob, InitialState(prob))

(***************************************************************************)
(* C4: in Max (Min) mode a visited terminal state is stored if and only    *)
(* if its value is strictly greater (smaller) than best_value at the       *)
(* visit, and best_value then becomes that value; a rejected state leaves  *)
(* solutions and best_value unchanged.  For terminal values visited in     *)
(* the order 5, 3, 7, 7, 2 under Max the accepted values are {5, 7}, and   *)
(* of the two states tied at 7 only the first visited is kept.             *)
(***************************************************************************)
ValuesOf(states) == [i \in DOMAIN states |-> value(prob, states[i])]

C4_VisitStep ==
    (Len(visited') = Len(visited) + 1 /\ prob.type \in {"Max", "Min"})
    => IF Better(prob.type, value(prob, state), best_value)
       THEN /\ solutions' = solutions \cup {state}
            /\ best_value' = value(prob, state)
       ELSE /\ solutions' = solutions
            /\ best_value' = best_value

C4_Stream ==
    (/\ Returned
     /\ prob.type = "Max"
     /\ ValuesOf(First.visited) = <<5, 3, 7, 7, 2>>)
    => /\ {value(prob, s) : s \in First.solutions} = {5, 7}
       /\ First.solutions = {First.visited[1], First.visited[3]}
       /\ First.visited[4] \notin First.solutions

C4_StreamingBest == [][C4_VisitStep]_vars /\ []C4_Stream

C4_Witness ==
    /\ Returned
    /\ prob.type = "Max"
    /\ ValuesOf(First.visited) = <<5, 3, 7, 7, 2>>
    /\ First.visited[3] # First.visited[4]
    /\ Cardinality(First.solutions) = 2
    /\ First.best_value = 7

(***************************************************************************)
(* C5: in Max (Min) mode, when estimated_value is a valid upper (lower)    *)
(* bound on every terminal value reachable through the alternative and     *)
(* the cap is not reached, best_value after solve() is the best_value of   *)
(* the same search with pruning disabled.                                  *)
(***************************************************************************)
ValidEstimator(p) ==
    \A s \in Reachable(p, InitialState(p)) :
        ~is_final(p, s) =>
            \A a \in Range(alternatives(p, s)) :
                \A t \in Terminals(p, forward(s, a)) :
                    CASE p.type = "Max" -> Ge(estimated_value(p, s, a), value(p, t))
                      [] p.type = "Min" -> Le(estimated_value(p, s, a), value(p, t))
                      [] OTHER -> TRUE

C5_PruningSound ==
    (/\ Returned
     /\ prob.type \in {"Max", "Min"}
     /\ ~First.success
     /\ ValidEstimator(prob))
    => First.best_value = FreshSolve(prob, First.count, FALSE).best_value

C5_Witness ==
    /\ Returned
    /\ prob.type \in {"Max", "Min"}
    /\ prob.est \in {"tight", "slack"}
    /\ ~First.success
    /\ ValidEstimator(prob)
    /\ Range(First.visited) # Terminals(prob, InitialState(prob))
    /\ First.best_value = FreshSolve(prob, First.count, FALSE).best_value
    /\ First.best_value # InitialBest(prob)

(***************************************************************************)
(* C6 as stated: with solution_count = 1 in All mode on a fresh engine     *)
(* the number of forward calls equals the depth of the first terminal      *)
(* state, no sibling at an ancestor level is forwarded and solutions holds *)
(* exactly that state.                                                     *)
(***************************************************************************)
DepthOf(t) == prob.n - size(t)

C6_ForwardsEqualDepth ==
    (/\ Returned
     /\ prob.type = "All"
     /\ First.count = 1
     /\ First.visited # << >>)
    => /\ First.fwd = DepthOf(First.visited[1])
       /\ Len(First.visited) = 1
       /\ First.solutions = {First.visited[1]}

(***************************************************************************)
(* C6 amended: with solution_count = 1 in All mode on a fresh engine,      *)
(* solve() stops at the first terminal state it visits: no forward call    *)
(* follows the visit, every forward has been undone on return and          *)
(* solutions holds exactly that state.  The number of forward calls        *)
(* equals the depth of that state when the path that always takes the      *)
(* first alternative ends in a terminal state; when that path runs into a  *)
(* non-final state without alternatives, the forwards into the abandoned   *)
(* branches count too and the number is greater than the depth.            *)
(***************************************************************************)
RECURSIVE LeftmostDepth(_, _)
LeftmostDepth(p, s) ==
    IF is_final(p, s) THEN 0
    ELSE IF alternatives(p, s) = << >> THEN -1
    ELSE LET d == LeftmostDepth(p, forward(s, Head(alternatives(p, s))))
         IN  IF d < 0 THEN -1 ELSE d + 1

C6_EarlyStop ==
    /\ (/\ Returned
        /\ prob.type = "All"
        /\ First.count = 1
        /\ First.visited # << >>)
       => /\ Len(First.visited) = 1
          /\ First.solutions = {First.visited[1]}
          /\ First.success
          /\ First.state = InitialState(prob)
          /\ IF LeftmostDepth(prob, InitialState(prob)) >= 0
             THEN /\ First.fwd = DepthOf(First.visited[1])
                  /\ First.fwd = LeftmostDepth(prob, InitialState(prob))
             ELSE First.fwd > DepthOf(First.visited[1])
    /\ (/\ Running
        /\ calls = 1
        /\ prob.type = "All"
        /\ solution_count = 1
        /\ visited # << >>)
       => \A j \in DOMAIN stack : stack[j].pc \in {"back", "done"}

C6_Witness ==
    /\ Returned
    /\ prob.type = "All"
    /\ First.count = 1
    /\ Len(First.visited) = 1
    /\ First.fwd = 2
    /\ DepthOf(First.visited[1]) = 2
    /\ Len(prob.alts) = 2

(***************************************************************************)
(* C7: when estimated_value is not overridden, is_to_prune is false for    *)
(* every alternative in every reachable engine state of a Max or Min       *)
(* problem, and so no frame drops an alternative.                          *)
(***************************************************************************)
C7_DefaultNeverPrunes ==
    (prob.est = "default" /\ prob.type \in {"Max", "Min"})
    => /\ ~is_final(prob, state) =>
              \A a \in Range(alternatives(prob, state)) :
                  ~is_to_prune(prob, state, best_value, a)
       /\ (Running /\ Top.pc = "loop") => Top.alts = alternatives(prob, state)

(***************************************************************************)
(* C8: every forward step decreases size() and alternatives() is finite,   *)
(* so solve() terminates - a running solve() always returns, after no more *)
(* forward calls than the tree of alternatives has edges - and the number  *)
(* of forward calls not yet undone never exceeds the initial size().       *)
(***************************************************************************)
Pending == Cardinality({j \in DOMAIN stack : stack[j].pc = "back"})

C8_ForwardDecreasesSize == (fwd' = fwd + 1) => size(state') < size(state)

RECURSIVE Edges(_, _)
Edges(p, s) ==
    IF is_final(p, s) THEN 0
    ELSE LET as == alternatives(p, s)
             sub == [i \in DOMAIN as |-> 1 + Edges(p, forward(s, as[i]))]
             Sum[i \in 0..Len(as)] == IF i = 0 THEN 0 ELSE Sum[i - 1] + sub[i]
         IN  Sum[Len(as)]

C8_DepthBounded ==
    /\ Pending <= prob.n
    /\ Pending = prob.n - size(state)
    /\ fwd <= Edges(prob, InitialState(prob))

C8_Terminates ==
    /\ [][C8_ForwardDecreasesSize]_vars
    /\ []C8_DepthBounded
    /\ Running ~> Idle

C8_Witness ==
    /\ Running
    /\ prob.n = MaxDepth
    /\ Pending = prob.n
    /\ Len(prob.alts) >= 2

(***************************************************************************)
(* C9: if solve() stopped because the cap k1 was reached, the cap is       *)
(* raised to k2 >= k1 and solve() is called again, solutions and           *)
(* best_value equal those of one solve() on a fresh engine with cap k2     *)
(* (stated for k1 >= 1, and for best_value where it is used: Max and Min). *)
(***************************************************************************)
C9_ResumeEqualsFresh ==
    (/\ Idle
     /\ Len(log) >= 2
     /\ log[1].success
     /\ log[1].count >= 1
     /\ log[2].count >= log[1].count
     /\ ValidEstimator(prob))
    => /\ log[2].solutions = FreshSolve(prob, log[2].count, TRUE).solutions
       /\ prob.type \in {"Max", "Min"} =>
              log[2].best_value = FreshSolve(prob, log[2].count, TRUE).best_value

(***************************************************************************)
(* C10: on a fresh engine in Max or Min mode the first terminal state      *)
(* solve() visits is accepted whatever its value, so all_solutions() is    *)
(* not empty after a solve() that visited a terminal state.                *)
(***************************************************************************)
C10_FirstTerminalAccepted ==
    (/\ Idle
     /\ calls = 1
     /\ prob.type \in {"Max", "Min"}
     /\ visited # << >>)
    => /\ visited[1] \in all_solutions
       /\ all_solutions # {}

(***************************************************************************)
(* C11: for every DacProblem, one whose root problem is itself a base case *)
(* included, DacMemAlgorithm::new(p).get_solution() returns the same       *)
(* Option as DacAlgorithm::new(p).get_solution().                          *)
(***************************************************************************)
C11_MemEqualsPlain ==
    (built = "yes" /\ partial_solution # Unbuilt)
    => DacMemGetSolution = DacGetSolution

(***************************************************************************)
(* C12 as stated: in Max (Min) mode forward(a) is never called on an       *)
(* alternative whose estimated_value(a) is <= (>=) the best_value held at  *)
(* the moment of that forward call, a best found while exploring an        *)
(* earlier sibling included.  (A frame at "enter" below another frame has  *)
(* just been entered by its caller's forward.)                             *)
(***************************************************************************)
Dominated(type, est, best) ==
    CASE type = "Max" -> Le(est, best)
      [] type = "Min" -> Ge(est, best)
      [] OTHER -> FALSE

Caller == stack[Len(stack) - 1]

C12_NeverForwardDominated ==
    (/\ Len(stack) >= 2
     /\ Top.pc = "enter"
     /\ prob.type \in {"Max", "Min"})
    => ~Dominated(prob.type,
                  estimated_value(prob, Caller.entry, Caller.alts[Caller.i]),
                  best_value)

(***************************************************************************)
(* C12 amended: a frame of solve() filters its alternatives once, when it  *)
(* is entered: in Max (Min) mode it keeps, in order, exactly the           *)
(* alternatives whose estimated_value is not <= (>=) the best_value of     *)
(* that moment, and forward(a) is only called on those.  A best found      *)
(* while exploring an earlier sibling does not remove the later siblings   *)
(* of the same frame; it prunes in the frames entered afterwards.  Stated  *)
(* of the innermost frame, which every frame is from the time it collects  *)
(* its alternatives until it forwards one, and again after each backward.  *)
(***************************************************************************)
C12_PruneAtCollection ==
    (/\ Running
     /\ Top.pc # "enter"
     /\ prob.type \in {"Max", "Min"})
    => LET Kept(a) == ~Dominated(prob.type,
                                 estimated_value(prob, Top.entry, a), Top.best)
       IN  /\ Top.alts = SelectSeq(alternatives(prob, Top.entry), Kept)
           /\ Top.pc = "back" => Kept(Top.alts[Top.i])
           /\ Len(stack) >= 2 =>
                  /\ Caller.pc = "back"
                  /\ Caller.entry = backward(Top.entry, Caller.alts[Caller.i])

C12_Witness ==
    /\ Len(stack) >= 2
    /\ Top.pc = "enter"
    /\ prob.type = "Max"
    /\ Caller.i >= 2
    /\ Dominated(prob.type,
                 estimated_value(prob, Caller.entry, Caller.alts[Caller.i]),
                 best_value)
    /\ ~Dominated(prob.type,
                  estimated_value(prob, Caller.entry, Caller.alts[Caller.i]),
                  Caller.best)

(***************************************************************************)
(* The forward calls of a trace not yet undone, oldest first.  A backward  *)
(* that does not undo the most recent of them with the same alternative    *)
(* leaves the mark Mismatch.                                               *)
(***************************************************************************)
Mismatch == -1

Open(t) ==
    LET O[k \in 0..Len(t)] ==
            IF k = 0 THEN << >>
            ELSE LET o == O[k - 1]
                 IN  IF t[k][1] = "forward" THEN Append(o, t[k][2])
                     ELSE IF o # << >> /\ o[Len(o)] = t[k][2]
                          THEN SubSeq(o, 1, Len(o) - 1)
                          ELSE Append(o, Mismatch)
    IN  O[Len(t)]

Replay(s, as) ==
    LET R[k \in 0..Len(as)] == IF k = 0 THEN s ELSE forward(R[k - 1], as[k])
    IN  R[Len(as)]

(***************************************************************************)
(* C13: the mutations of the live state are a stack: every forward(a) is   *)
(* eventually followed by exactly one backward(a) with the same            *)
(* alternative, every backward undoes the most recent forward not yet      *)
(* undone, and value() / update_solutions are only called on a state for   *)
(* which is_final() is true.                                               *)
(***************************************************************************)
C13_WellNested ==
    LET open == Open(trace)
    IN  /\ Mismatch \notin Range(open)
        /\ state = Replay(InitialState(prob), open)
        /\ (Idle /\ calls >= 1) => open = << >>
        /\ \A j \in DOMAIN visited : is_final(prob, visited[j])

C13_VisitStep ==
    (Len(visited') = Len(visited) + 1)
    => /\ is_final(prob, state)
       /\ visited' = Append(visited, state)

C13_StackDiscipline ==
    /\ []C13_WellNested
    /\ [][C13_VisitStep]_vars
    /\ (Open(trace) # << >>) ~> (Idle /\ Open(trace) = << >>)

C13_Witness ==
    /\ Idle
    /\ calls >= 1
    /\ Len(trace) >= 6
    /\ Open(trace) = << >>
    /\ trace[1][1] = "forward"
    /\ trace[2][1] = "forward"
    /\ trace[3] = <<"backward", trace[2][2]>>
    /\ trace[Len(trace)][1] = "backward"
    /\ trace[Len(trace)][2] # trace[1][2]
    /\ visited # << >>

(***************************************************************************)
(* C14: within one solve() on a fresh engine, once a terminal state has    *)
(* been visited with |solutions| >= solution_count (success is true), no   *)
(* forward(), no value() and no insertion happens before solve() returns:  *)
(* only the pending backward calls are executed, and success is still      *)
(* true on return.                                                         *)
(***************************************************************************)
CapReached ==
    /\ Running
    /\ calls = 1
    /\ success

C14_Step ==
    CapReached
    => /\ fwd' = fwd
       /\ visited' = visited
       /\ solutions' = solutions
       /\ best_value' = best_value
       /\ success'
       /\ trace' # trace =>
              /\ trace' = Append(trace, <<"backward", Open(trace)[Len(Open(trace))]>>)
              /\ Len(Open(trace')) = Len(Open(trace)) - 1
       /\ Len(log') > Len(log) => log'[1].success

C14_UnwindOnly == [][C14_Step]_vars

C14_Witness ==
    /\ CapReached
    /\ visited # << >>
    /\ Cardinality(solutions) >= solution_count
    /\ Len(Open(trace)) >= 2
    /\ \E j \in DOMAIN stack : stack[j].i < Len(stack[j].alts)

(***************************************************************************)
(* The paths a trace forwarded, in order: a path is the sequence of        *)
(* alternatives open right after the forward call.                         *)
(***************************************************************************)
Paths(t) ==
    LET W[k \in 0..Len(t)] ==
            IF k = 0 THEN [open |-> << >>, paths |-> << >>]
            ELSE LET w == W[k - 1]
                 IN  IF t[k][1] = "forward"
                     THEN [open |-> Append(w.open, t[k][2]),
                           paths |-> Append(w.paths, Append(w.open, t[k][2]))]
                     ELSE [w EXCEPT !.open = SubSeq(w.open, 1, Len(w.open) - 1)]
    IN  W[Len(t)].paths

(***************************************************************************)
(* Every path of the tree of alternatives below s, depth first and left    *)
(* to right; path is the path that leads to s.                             *)
(***************************************************************************)
RECURSIVE Preorder(_, _, _)
Preorder(p, s, path) ==
    IF is_final(p, s) THEN << >>
    ELSE LET as == alternatives(p, s)
             Sub(i) == <<Append(path, as[i])>> \o
                       Preorder(p, forward(s, as[i]), Append(path, as[i]))
             Cat[i \in 0..Len(as)] == IF i = 0 THEN << >> ELSE Cat[i - 1] \o Sub(i)
         IN  Cat[Len(as)]

IsSubsequence(a, b) ==
    LET M[k \in 0..Len(b)] ==
            IF k = 0 THEN 0
            ELSE LET m == M[k - 1]
                 IN  IF m < Len(a) /\ a[m + 1] = b[k] THEN m + 1 ELSE m
    IN  M[Len(b)] = Len(a)

(***************************************************************************)
(* C15: the search is depth first and left to right: the surviving         *)
(* alternatives of a frame are forwarded in alternatives() order, the      *)
(* subtree of an alternative is finished before its next sibling is        *)
(* forwarded, and every path is forwarded at most once - exactly once for  *)
(* every path in All mode when the cap is not reached.  The paths          *)
(* forwarded so far are looked at after every forward call (the frame just *)
(* entered is at "enter") and on return.                                   *)
(***************************************************************************)
C15_DepthFirstLeftToRight ==
    /\ (Idle \/ Top.pc = "enter")
       => IsSubsequence(Paths(trace), Preorder(prob, InitialState(prob), << >>))
    /\ (/\ Idle
        /\ calls >= 1
        /\ prob.type = "All"
        /\ ~success)
       => Paths(trace) = Preorder(prob, InitialState(prob), << >>)

C15_Witness ==
    /\ Idle
    /\ calls = 1
    /\ prob.type = "All"
    /\ ~success
    /\ Len(prob.alts) >= 2
    /\ prob.n = MaxDepth
    /\ Len(Paths(trace)) >= 6
    /\ Paths(trace) = Preorder(prob, InitialState(prob), << >>)

(***************************************************************************)
(* The terminal states of the tree of alternatives below s in the order a  *)
(* depth-first, left-to-right search meets them, repetitions included.     *)
(***************************************************************************)
RECURSIVE TerminalOrder(_, _)
TerminalOrder(p, s) ==
    IF is_final(p, s) THEN <<s>>
    ELSE LET as == alternatives(p, s)
             Cat[i \in 0..Len(as)] ==
                 IF i = 0 THEN << >>
                 ELSE Cat[i - 1] \o TerminalOrder(p, forward(s, as[i]))
         IN  Cat[Len(as)]

(***************************************************************************)
(* The first m distinct elements of a sequence.                            *)
(***************************************************************************)
FirstDistinct(seq, m) ==
    LET D[k \in 0..Len(seq)] ==
            IF k = 0 THEN {}
            ELSE LET d == D[k - 1]
                 IN  IF Cardinality(d) < m THEN d \cup {seq[k]} ELSE d
    IN  D[Len(seq)]

Min(a, b) == IF a <= b THEN a ELSE b

(***************************************************************************)
(* C16: in All mode with cap k >= 1, visiting a terminal state equal to    *)
(* one already stored does not increase the count and does not by itself   *)
(* end the search; after solve() on a fresh engine |solutions| is          *)
(* min(k, D), D the number of distinct reachable terminal states, and      *)
(* solutions holds the first min(k, D) distinct terminal states in         *)
(* depth-first order.                                                      *)
(***************************************************************************)
C16_DuplicateStep ==
    (/\ Len(visited') = Len(visited) + 1
     /\ prob.type = "All"
     /\ calls = 1
     /\ solution_count >= 1
     /\ state \in solutions)
    => /\ solutions' = solutions
       /\ ~success'

C16_FirstDistinct ==
    (/\ Returned
     /\ prob.type = "All"
     /\ First.count >= 1)
    => LET order == TerminalOrder(prob, InitialState(prob))
           m == Min(First.count, Cardinality(Range(order)))
       IN  /\ Cardinality(First.solutions) = m
           /\ First.solutions = FirstDistinct(order, m)

C16_Deduplicated == [][C16_DuplicateStep]_vars /\ []C16_FirstDistinct

C16_Witness ==
    /\ Returned
    /\ prob.type = "All"
    /\ First.count >= 1
    /\ Len(First.visited) > Cardinality(Range(First.visited))
    /\ Len(First.visited) > Cardinality(First.solutions) + 1
    /\ Cardinality(First.solutions) >= 3
    /\ First.solutions = Range(TerminalOrder(prob, InitialState(prob)))

(***************************************************************************)
(* C17: in Max (Min) mode, at every point of any sequence of solve()       *)
(* calls, best_value never decreases (increases), the values of the        *)
(* states in solutions are pairwise distinct and, whenever solutions is    *)
(* not empty, best_value is the maximum (minimum) of value() over          *)
(* solutions.                                                              *)
(***************************************************************************)
C17_BestStep ==
    /\ prob.type = "Max" => Ge(best_value', best_value)
    /\ prob.type = "Min" => Le(best_value', best_value)

C17_BestOfSolutions ==
    prob.type \in {"Max", "Min"} =>
        /\ \A s, t \in solutions : s # t => value(prob, s) # value(prob, t)
        /\ solutions # {} =>
               /\ \E s \in solutions : value(prob, s) = best_value
               /\ \A s \in solutions :
                      \/ value(prob, s) = best_value
                      \/ Better(prob.type, best_value, value(prob, s))

C17_BestMonotone == [][C17_BestStep]_vars /\ []C17_BestOfSolutions

C17_Witness ==
    /\ Idle
    /\ Len(log) = 2
    /\ prob.type = "Max"
    /\ Cardinality(log[1].solutions) = 1
    /\ Cardinality(solutions) >= 2
    /\ Gt(log[2].best_value, log[1].best_value)
    /\ \E s \in solutions : value(prob, s) = best_value

(***************************************************************************)
(* The problems that differ from p only in what value() and                *)
(* estimated_value() return.                                               *)
(***************************************************************************)
ScoreVariants(p) ==
    { [p EXCEPT !.val = v, !.est = e] :
          v \in {SumTable, StreamTable, HighTable, LowTable},
          e \in {"default", "tight", "slack", "zero"} }

(***************************************************************************)
(* C18: in All mode the search does not depend on the scores: two runs on  *)
(* problems that are identical except for the results of value() and       *)
(* estimated_value() perform the same sequence of forward and backward     *)
(* calls and end with the same solutions and the same success flag.        *)
(***************************************************************************)
C18_ScoresIgnored ==
    (/\ Idle
     /\ calls = 1
     /\ prob.type = "All")
    => \A q \in ScoreVariants(prob) :
           LET r == FreshSolve(q, First.count, TRUE)
           IN  /\ r.trace = trace
               /\ r.solutions = First.solutions
               /\ r.success = First.success

C18_Witness ==
    /\ Idle
    /\ calls = 1
    /\ prob.type = "All"
    /\ Len(trace) >= 8
    /\ Cardinality(solutions) >= 2
    /\ \E q \in ScoreVariants(prob) :
           LET r == FreshSolve(q, First.count, TRUE)
           IN  /\ r.best_value # First.best_value
               /\ q.est # prob.est
               /\ r.trace = trace
               /\ r.solutions = First.solutions

(***************************************************************************)
(* C19: calling solve() a second time with the same solution_count leaves  *)
(* solutions unchanged for every problem type, whether or not the first    *)
(* call was cut short by the cap; in Max and Min mode best_value is        *)
(* unchanged too.                                                          *)
(***************************************************************************)
C19_SecondSolveIdempotent ==
    (/\ Idle
     /\ Len(log) = 2
     /\ log[2].count = log[1].count)
    => /\ log[2].solutions = log[1].solutions
       /\ prob.type \in {"Max", "Min"} => log[2].best_value = log[1].best_value

(***************************************************************************)
(* The problems solve() can reach from p, p included.                      *)
(***************************************************************************)
RECURSIVE Subproblems(_)
Subproblems(p) ==
    IF is_base_case(p) THEN {p}
    ELSE {p} \cup UNION { Subproblems(get_subproblem(p, i)) :
                             i \in 0..(subproblem_count(p) - 1) }

StrictlyDecreasing(p) ==
    \A q \in Subproblems(p) :
        ~is_base_case(q) =>
            \A i \in 0..(subproblem_count(q) - 1) :
                dac_size(get_subproblem(q, i)) < dac_size(q)

(***************************************************************************)
(* C20: when the subproblems strictly decrease in size, during             *)
(* DacMemAlgorithm::new(p) combine is called at most once for each         *)
(* distinct non-base-case problem reached, and every later occurrence of   *)
(* such a problem is answered from the map with the value stored the       *)
(* first time.                                                             *)
(***************************************************************************)
C20_MapStep ==
    /\ \A q \in DOMAIN map : q \in DOMAIN map' /\ map'[q] = map[q]
    /\ Len(combined') > Len(combined) =>
           /\ combined'[Len(combined')] \notin DOMAIN map
           /\ DOMAIN map' = DOMAIN map \cup {combined'[Len(combined')]}
    /\ Len(answered') > Len(answered) =>
           /\ answered'[Len(answered')][1] \in DOMAIN map
           /\ map' = map

C20_Memoised ==
    StrictlyDecreasing(problem) =>
        /\ \A i, j \in DOMAIN combined : i # j => combined[i] # combined[j]
        /\ DOMAIN map = Range(combined)
        /\ \A q \in DOMAIN map : ~is_base_case(q) /\ map[q] = DacSolve(q)
        /\ \A i \in DOMAIN answered :
               /\ answered[i][1] \in Range(combined)
               /\ answered[i][2] = map[answered[i][1]]
        /\ built = "yes" =>
               Range(combined) = {q \in Subproblems(problem) : ~is_base_case(q)}

C20_CombineOnce == [][C20_MapStep]_vars /\ []C20_Memoised

C20_Witness ==
    /\ built = "yes"
    /\ StrictlyDecreasing(problem)
    /\ Len(combined) >= 4
    /\ Len(answered) >= 2
    /\ answered[1][1] # answered[2][1]

====
